---- MODULE Spec2Model ----
(***************************************************************************)
(* Model of ResumeMatcher (src/resume_matcher.py): the query pipeline      *)
(* (early exits, embedding, one over-fetched index call, result            *)
(* formatting, client-side filtering, truncation) and reset_index.         *)
(*                                                                         *)
(* Python values are tagged records of one shape, so that "==" between     *)
(* values of different Python types is FALSE instead of a type error:      *)
(*   t = "none" | "int" | "float" | "str" | "list"                         *)
(*   n = the number (an int; a float counted in units of 10^-5)            *)
(*   s = the string, l = the list's elements (strings)                     *)
(* A dict key that is absent is the value Absent; dict.get turns it into   *)
(* None or into the given default.                                         *)
(***************************************************************************)
EXTENDS Integers, Sequences, FiniteSets, TLC

VARIABLES pc, index, req, env, pool, ret, ev

vars == <<pc, index, req, env, pool, ret, ev>>

---------------------------------------------------------------------------
(* Bounds of the model *)
MaxPool == 3
MaxTopK == 2
MaxRequired == 2
MaxList == 2

(* top_k * 5 in the index call *)
OverfetchFactor == 5
(* round(similarity, 4): four decimals, counted in units of 10^-5 *)
RoundUnit == 10
(* units of 10^-5 in the integer 1 *)
Scale == 100000

---------------------------------------------------------------------------
(* Python values *)
PyNone == [t |-> "none", n |-> 0, s |-> "", l |-> <<>>]
Absent == [t |-> "absent", n |-> 0, s |-> "", l |-> <<>>]
PyInt(i) == [t |-> "int", n |-> i, s |-> "", l |-> <<>>]
PyFloat(u) == [t |-> "float", n |-> u, s |-> "", l |-> <<>>]
PyStr(x) == [t |-> "str", n |-> 0, s |-> x, l |-> <<>>]
PyList(xs) == [t |-> "list", n |-> 0, s |-> "", l |-> xs]

(* dict.get(key): an absent key reads as None *)
Get(v) == IF v = Absent THEN PyNone ELSE v

(* dict.get(key, default) *)
GetDefault(v, d) == IF v = Absent THEN d ELSE v

IsNumber(v) == v.t \in {"int", "float"}

(* the number a value stands for, in units of 10^-5 *)
Num(v) == IF v.t = "int" THEN v.n * Scale ELSE v.n

(* the strings of the model in Python's (code point) order *)
StrOrder ==
    <<"Backend", "DevOps", "Go", "Pune", "Python", "Rust", "five",
      "r1", "r2", "r3", "r4", "s1", "s2", "s3">>

StrRank(x) == CHOOSE i \in 1..Len(StrOrder) : StrOrder[i] = x

RECURSIVE ListLe(_, _)
(* list <= list: lexicographic *)
ListLe(a, b) ==
    IF a = <<>> THEN TRUE
    ELSE IF b = <<>> THEN FALSE
    ELSE IF Head(a) = Head(b) THEN ListLe(Tail(a), Tail(b))
    ELSE StrRank(Head(a)) < StrRank(Head(b))

(* a <= b in Python: "T", "F", or "raise" (TypeError) for unorderable types *)
PyLe(a, b) ==
    IF IsNumber(a) /\ IsNumber(b) THEN (IF Num(a) <= Num(b) THEN "T" ELSE "F")
    ELSE IF a.t = "str" /\ b.t = "str"
         THEN (IF StrRank(a.s) <= StrRank(b.s) THEN "T" ELSE "F")
    ELSE IF a.t = "list" /\ b.t = "list" THEN (IF ListLe(a.l, b.l) THEN "T" ELSE "F")
    ELSE "raise"

(* a >= b in Python *)
PyGe(a, b) == PyLe(b, a)

(* a == b in Python: numbers by value, everything else by type and content *)
PyEq(a, b) == IF IsNumber(a) /\ IsNumber(b) THEN Num(a) = Num(b) ELSE a = b

(* x in list-of-strings *)
InList(x, xs) == \E i \in 1..Len(xs) : PyEq(PyStr(xs[i]), x)

(* x in required (a list of scalars) *)
InRequired(x, required) == \E i \in 1..Len(required) : PyEq(required[i], x)

---------------------------------------------------------------------------
(* Filter conditions: an operator dict or a plain value (direct equality). *)
(* keys = the operator keys the dict holds; a field of an operator that    *)
(* is not in keys is never read.                                           *)
DictCond(ks, g, le, e, r) ==
    [kind |-> "dict", keys |-> ks, gte |-> g, lte |-> le, eq |-> e, inn |-> r,
     val |-> PyNone]

ValueCond(v) ==
    [kind |-> "value", keys |-> {}, gte |-> PyNone, lte |-> PyNone, eq |-> PyNone,
     inn |-> <<>>, val |-> v]

Gte(b) == DictCond({"$gte"}, b, PyNone, PyNone, <<>>)
Lte(b) == DictCond({"$lte"}, PyNone, b, PyNone, <<>>)
Between(a, b) == DictCond({"$gte", "$lte"}, a, b, PyNone, <<>>)
Eq(v) == DictCond({"$eq"}, PyNone, PyNone, v, <<>>)
In(r) == DictCond({"$in"}, PyNone, PyNone, PyNone, r)
Ne(v) == DictCond({"$ne"}, PyNone, PyNone, v, <<>>)

(* the $gte step of the clause body *)
GteStep(condition, item_value) ==
    IF "$gte" \in condition.keys /\ item_value # PyNone
    THEN LET c == PyGe(item_value, condition.gte)
         IN  IF c = "raise" THEN "raise" ELSE IF c = "F" THEN "fail" ELSE "pass"
    ELSE "pass"

(* the $lte step *)
LteStep(condition, item_value) ==
    IF "$lte" \in condition.keys /\ item_value # PyNone
    THEN LET c == PyLe(item_value, condition.lte)
         IN  IF c = "raise" THEN "raise" ELSE IF c = "F" THEN "fail" ELSE "pass"
    ELSE "pass"

(* the $eq step *)
EqStep(condition, item_value) ==
    IF "$eq" \in condition.keys /\ ~PyEq(item_value, condition.eq) THEN "fail" ELSE "pass"

(* the $in step requiring every required value (subset instead of overlap) *)
InStepAllRequired(condition, item_value) ==
    IF "$in" \in condition.keys /\ item_value # PyNone
    THEN IF item_value.t = "list"
         THEN (IF \A i \in 1..Len(condition.inn) : InList(condition.inn[i], item_value.l)
               THEN "pass" ELSE "fail")
         ELSE (IF InRequired(item_value, condition.inn) THEN "pass" ELSE "fail")
    ELSE "pass"

(* the $in step *)
InStep(condition, item_value) ==
    IF "$in" \in condition.keys /\ item_value # PyNone
    THEN IF item_value.t = "list"
         THEN (IF \E i \in 1..Len(condition.inn) : InList(condition.inn[i], item_value.l)
               THEN "pass" ELSE "fail")
         ELSE (IF InRequired(item_value, condition.inn) THEN "pass" ELSE "fail")
    ELSE "pass"

(* One clause of the filter against one value: "pass" (matches stays True), *)
(* "fail" (matches = False; break) or "raise".                              *)
ClauseOutcome(condition, item_value) ==
    IF condition.kind = "dict"
    THEN LET g == GteStep(condition, item_value)
             l == LteStep(condition, item_value)
             e == EqStep(condition, item_value)
         IN  IF g # "pass" THEN g
             ELSE IF l # "pass" THEN l
             ELSE IF e # "pass" THEN e
             ELSE InStep(condition, item_value)
    ELSE IF ~PyEq(item_value, condition.val) THEN "fail" ELSE "pass"

---------------------------------------------------------------------------
(* Raw index hits and formatted result items *)
Hit(i, sim, hm, m) == [id |-> i, similarity |-> sim, hasMeta |-> hm, meta |-> m]

Meta(r, y, sk, su) == [role |-> r, years |-> y, skills |-> sk, summary |-> su]

(* the {} of res.get('meta', {}) *)
EmptyMeta == Meta(Absent, Absent, Absent, Absent)

(* round(x, 4) of a float counted in units of 10^-5: to the nearest multiple *)
(* of 10^-4, a tie to the even one                                          *)
Round4(u) ==
    LET q == u \div RoundUnit
        r == u % RoundUnit
    IN  IF 2 * r < RoundUnit THEN q * RoundUnit
        ELSE IF 2 * r > RoundUnit THEN (q + 1) * RoundUnit
        ELSE IF q % 2 = 0 THEN q * RoundUnit ELSE (q + 1) * RoundUnit

(* round(res.get('similarity', 0), 4) *)
Score(res) ==
    LET x == GetDefault(res.similarity, PyInt(0))
    IN  IF x.t = "int" THEN x ELSE PyFloat(Round4(x.n))

(* the dict appended to parsed for one hit *)
FormatHit(res) ==
    LET meta == IF res.hasMeta THEN res.meta ELSE EmptyMeta
    IN  [id |-> Get(res.id),
         score |-> Score(res),
         role |-> Get(meta.role),
         years |-> Get(meta.years),
         skills |-> Get(meta.skills),
         summary |-> Get(meta.summary)]

(* _format_results: an empty result set gives [], else one item per hit, in order *)
FormatResults(results) ==
    IF results = <<>> THEN <<>>
    ELSE [i \in 1..Len(results) |-> FormatHit(results[i])]

(* item.get(key) *)
ItemGet(item, key) ==
    CASE key = "id" -> item.id
      [] key = "score" -> item.score
      [] key = "role" -> item.role
      [] key = "years" -> item.years
      [] key = "skills" -> item.skills
      [] key = "summary" -> item.summary
      [] OTHER -> PyNone

---------------------------------------------------------------------------
(* Client-side filtering. A filter is the sequence of its (key, condition) *)
(* entries in the dict's iteration order; the empty sequence is a filter   *)
(* that is None or {}.                                                     *)
Clause(k, c) == [key |-> k, condition |-> c]

RECURSIVE ItemMatches(_, _)
(* the inner loop over filters.items() for one item: "pass", "fail" or "raise" *)
ItemMatches(filters, item) ==
    IF filters = <<>> THEN "pass"
    ELSE LET o == ClauseOutcome(Head(filters).condition, ItemGet(item, Head(filters).key))
         IN  IF o = "pass" THEN ItemMatches(Tail(filters), item) ELSE o

RECURSIVE FilterResultsPrepending(_, _)
(* the outer loop inserting each kept item at the front instead of appending *)
FilterResultsPrepending(formatted, filters) ==
    IF formatted = <<>> THEN [raised |-> FALSE, items |-> <<>>]
    ELSE LET o == ItemMatches(filters, Head(formatted))
             rest == FilterResultsPrepending(Tail(formatted), filters)
         IN  IF o = "raise" THEN [raised |-> TRUE, items |-> <<>>]
             ELSE IF rest.raised THEN rest
             ELSE IF o = "pass"
                  THEN [raised |-> FALSE, items |-> rest.items \o <<Head(formatted)>>]
                  ELSE rest

RECURSIVE FilterResults(_, _)
(* the outer loop over formatted: the items kept, in order, or a raise *)
FilterResults(formatted, filters) ==
    IF formatted = <<>> THEN [raised |-> FALSE, items |-> <<>>]
    ELSE LET o == ItemMatches(filters, Head(formatted))
             rest == FilterResults(Tail(formatted), filters)
         IN  IF o = "raise" THEN [raised |-> TRUE, items |-> <<>>]
             ELSE IF rest.raised THEN rest
             ELSE IF o = "pass"
                  THEN [raised |-> FALSE, items |-> <<Head(formatted)>> \o rest.items]
                  ELSE rest

(* the slice taken one item too long *)
TruncateOneMore(xs, k) == SubSeq(xs, 1, IF k + 1 < Len(xs) THEN k + 1 ELSE Len(xs))

(* xs[:k] for k >= 0 *)
Truncate(xs, k) == SubSeq(xs, 1, IF k < Len(xs) THEN k ELSE Len(xs))

---------------------------------------------------------------------------
(* Query text: a sequence of characters *)
Whitespace == {" ", "\t", "\n"}

RECURSIVE LStrip(_)
LStrip(text) ==
    IF text # <<>> /\ Head(text) \in Whitespace THEN LStrip(Tail(text)) ELSE text

RECURSIVE RStrip(_)
RStrip(text) ==
    IF text # <<>> /\ text[Len(text)] \in Whitespace
    THEN RStrip(SubSeq(text, 1, Len(text) - 1))
    ELSE text

(* text.strip() *)
Strip(text) == RStrip(LStrip(text))

(* not text: the strip() forgotten *)
IsBlankNoStrip(text) == text = <<>>

(* not text.strip() *)
IsBlank(text) == Strip(text) = <<>>

(* the factor 4 of the comment above the call instead of the 5 of the call *)
IndexLimitTimesFour(top_k) == top_k * 4

(* the top_k passed to index.query *)
IndexLimit(top_k) == top_k * OverfetchFactor

Return(items, e, i, lim) ==
    [outcome |-> "returned", result |-> items, embedCalls |-> e, indexCalls |-> i,
     indexLimit |-> lim]

Raise(e, i, lim) ==
    [outcome |-> "raised", result |-> <<>>, embedCalls |-> e, indexCalls |-> i,
     indexLimit |-> lim]

(* ResumeMatcher.query. idx: self.index is set; embedOk / indexOk: whether  *)
(* model.encode / index.query return rather than raise; results: the hits   *)
(* index.query returns.                                                     *)
QueryCall(idx, text, filters, top_k, embedOk, indexOk, results) ==
    IF IsBlank(text) /\ filters = <<>> THEN Return(<<>>, 0, 0, 0)
    ELSE IF IsBlank(text) THEN Return(<<>>, 0, 0, 0)
    ELSE IF ~idx THEN Return(<<>>, 0, 0, 0)
    ELSE IF ~embedOk THEN Raise(1, 0, 0)
    ELSE IF ~indexOk THEN Return(<<>>, 1, 1, IndexLimit(top_k))
    ELSE LET formatted == FormatResults(results)
             filtered == FilterResults(formatted, filters)
         IN  IF filters = <<>>
             THEN Return(Truncate(formatted, top_k), 1, 1, IndexLimit(top_k))
             ELSE IF filtered.raised THEN Raise(1, 1, IndexLimit(top_k))
             ELSE Return(Truncate(filtered.items, top_k), 1, 1, IndexLimit(top_k))

---------------------------------------------------------------------------
(* The inputs of the model *)
SeqsUpTo(S, n) == UNION {[1..k -> S] : k \in 0..n}

(* query texts: empty, whitespace-only, and with words *)
Texts == {<<>>, <<" ">>, <<"\t", "\n">>, <<"a">>, <<" ", "a", "\n">>}

(* hits the index may return: complete; complete with other values; without *)
(* years and skills; without meta; without id, similarity and summary       *)
Hits ==
    {Hit(PyStr("r1"), PyFloat(90015), TRUE,
         Meta(PyStr("Backend"), PyInt(5), PyList(<<"Rust", "Go">>), PyStr("s1"))),
     Hit(PyStr("r2"), PyFloat(90005), TRUE,
         Meta(PyStr("DevOps"), PyInt(2), PyList(<<"Python">>), PyStr("s2"))),
     Hit(PyStr("r3"), PyFloat(90004), TRUE,
         Meta(PyStr("Backend"), Absent, Absent, PyStr("s3"))),
     Hit(PyStr("r4"), PyFloat(50000), FALSE, EmptyMeta),
     Hit(Absent, Absent, TRUE,
         Meta(PyStr("DevOps"), PyInt(7), PyList(<<"Go">>), Absent))}

(* what index.query(top_k = limit) may return *)
Pools(limit) == {p \in SeqsUpTo(Hits, MaxPool) : Len(p) <= limit}

Clauses ==
    {Clause("years", Gte(PyInt(3))),
     Clause("years", Lte(PyInt(4))),
     Clause("years", Between(PyInt(2), PyInt(6))),
     Clause("years", Gte(PyStr("five"))),
     Clause("years", Ne(PyInt(5))),
     Clause("role", Eq(PyStr("Backend"))),
     Clause("role", ValueCond(PyStr("DevOps"))),
     Clause("role", In(<<PyStr("Backend")>>)),
     Clause("skills", In(<<PyStr("Rust"), PyStr("Python")>>)),
     Clause("city", ValueCond(PyStr("Pune")))}

(* filters: none, one clause, two clauses on different fields *)
Filters ==
    {<<>>} \cup {<<c>> : c \in Clauses}
           \cup {f \in {<<c, d>> : c \in Clauses, d \in Clauses} : f[1].key # f[2].key}

NoReq == [text |-> <<>>, filters |-> <<>>, top_k |-> 0]
NoEnv == [embedOk |-> TRUE, indexOk |-> TRUE]
NoRet == [outcome |-> "none", result |-> <<>>, embedCalls |-> 0, indexCalls |-> 0,
          indexLimit |-> 0]
NoEv == [condition |-> ValueCond(PyNone), value |-> PyNone, out |-> "none"]

---------------------------------------------------------------------------
(* The matcher after __init__: self.index is the index handle, or None when *)
(* neither get_index nor create_index succeeded. No query has been made.    *)
Init ==
    /\ pc = "idle"
    /\ index \in BOOLEAN
    /\ req = NoReq
    /\ env = NoEnv
    /\ pool = <<>>
    /\ ret = NoRet
    /\ ev = NoEv

(* reset_index: delete_index (errors ignored), create_index, get_index. When *)
(* create_index or get_index raises, self.index keeps its value.             *)
ResetIndex ==
    /\ pc = "idle"
    /\ \E ok \in BOOLEAN : index' = (IF ok THEN TRUE ELSE index)
    /\ UNCHANGED <<pc, req, env, pool, ret, ev>>

(* One call of query(text, filters, top_k). The environment decides whether *)
(* encode and index.query raise and, when index.query returns, its hits.    *)
Query ==
    /\ pc = "idle"
    /\ \E text \in Texts, filters \in Filters, top_k \in 1..MaxTopK,
          embedOk \in BOOLEAN, indexOk \in BOOLEAN :
          \E results \in (IF ~IsBlank(text) /\ index /\ embedOk /\ indexOk
                          THEN Pools(IndexLimit(top_k)) ELSE {<<>>}) :
              /\ req' = [text |-> text, filters |-> filters, top_k |-> top_k]
              /\ env' = [embedOk |-> embedOk, indexOk |-> indexOk]
              /\ pool' = results
              /\ ret' = QueryCall(index, text, filters, top_k, embedOk, indexOk, results)
    /\ pc' = "done"
    /\ UNCHANGED <<index, ev>>

Next == ResetIndex \/ Query

Spec == Init /\ [][Next]_vars

---------------------------------------------------------------------------
(* The clause body on its own: one condition against one field value *)
Scalars == {PyInt(2), PyInt(5), PyStr("Backend"), PyStr("Rust"), PyStr("Go")}

Skills == {"Rust", "Go", "Python"}

EvalValues == {PyNone} \cup Scalars \cup {PyList(xs) : xs \in SeqsUpTo(Skills, MaxList)}

EvalBounds == {PyInt(2), PyInt(5), PyStr("five")}

EvalConditions ==
    {ValueCond(v) : v \in Scalars}
    \cup {Gte(b) : b \in EvalBounds} \cup {Lte(b) : b \in EvalBounds}
    \cup {Between(a, b) : a \in EvalBounds, b \in EvalBounds}
    \cup {Eq(v) : v \in Scalars} \cup {Ne(v) : v \in Scalars}
    \cup {In(r) : r \in SeqsUpTo(Scalars, MaxRequired)}
    \cup {DictCond({"$gte", "$ne"}, PyInt(2), PyNone, PyInt(5), <<>>),
          DictCond({"$eq", "$in"}, PyNone, PyNone, PyStr("Rust"), <<PyStr("Go")>>)}

EvalInit ==
    /\ pc = "idle"
    /\ index = FALSE
    /\ req = NoReq
    /\ env = NoEnv
    /\ pool = <<>>
    /\ ret = NoRet
    /\ ev \in [condition : EvalConditions, value : EvalValues, out : {"pending"}]

(* the body of the loop over filters.items() for the clause and the value *)
Evaluate ==
    /\ ev.out = "pending"
    /\ ev' = [ev EXCEPT !.out = ClauseOutcome(ev.condition, ev.value)]
    /\ UNCHANGED <<pc, index, req, env, pool, ret>>

EvalNext == Evaluate

EvalSpec == EvalInit /\ [][EvalNext]_vars

---------------------------------------------------------------------------
(* Vocabulary of the properties *)
Done == pc = "done"

Returned == Done /\ ret.outcome = "returned"

(* the text is empty or consists of whitespace only *)
BlankText == \A i \in 1..Len(req.text) : req.text[i] \in Whitespace

(* the values of a list, as a set *)
Elements(v) == {PyStr(v.l[i]) : i \in 1..Len(v.l)}

Required(condition) == {condition.inn[i] : i \in 1..Len(condition.inn)}

Supported == {"$gte", "$lte", "$eq", "$in"}

(* a present value v satisfies a clause: every supported operator of the   *)
(* clause holds of it; a missing value (None) satisfies none               *)
Satisfies(condition, v) ==
    /\ v # PyNone
    /\ condition.kind = "value" => PyEq(v, condition.val)
    /\ "$eq" \in condition.keys => PyEq(v, condition.eq)
    /\ "$gte" \in condition.keys => PyGe(v, condition.gte) = "T"
    /\ "$lte" \in condition.keys => PyLe(v, condition.lte) = "T"
    /\ "$in" \in condition.keys =>
          IF v.t = "list" THEN Elements(v) \cap Required(condition) # {}
          ELSE v \in Required(condition)

ItemSatisfies(filters, item) ==
    \A j \in 1..Len(filters) :
        Satisfies(filters[j].condition, ItemGet(item, filters[j].key))

(* the formatted hits of the pool, and those of them the filter loop keeps *)
Formatted == [i \in 1..Len(pool) |-> FormatHit(pool[i])]

Kept == {i \in 1..Len(pool) : ItemMatches(req.filters, Formatted[i]) = "pass"}

TrueMatches == {i \in 1..Len(pool) : ItemSatisfies(req.filters, Formatted[i])}

RECURSIVE IsSubsequence(_, _)
(* a is b with some elements left out, the others in b's order *)
IsSubsequence(a, b) ==
    IF a = <<>> THEN TRUE
    ELSE IF b = <<>> THEN FALSE
    ELSE IF Head(a) = Head(b) THEN IsSubsequence(Tail(a), Tail(b))
    ELSE IsSubsequence(a, Tail(b))

(* the index kept its contract: every hit has a similarity, none higher than *)
(* the one before it                                                         *)
PoolDescending ==
    /\ \A i \in 1..Len(pool) : pool[i].similarity # Absent
    /\ \A i \in 1..(Len(pool) - 1) : pool[i].similarity.n >= pool[i + 1].similarity.n

ScoresNonIncreasing ==
    \A i \in 1..(Len(ret.result) - 1) :
        Num(ret.result[i].score) >= Num(ret.result[i + 1].score)

---------------------------------------------------------------------------
(* C1: every item a query with non-blank text and a non-empty filter returns *)
(* satisfies every clause of the filter, also where the filtered field is    *)
(* missing (None) in the item.                                               *)
C1_FilterSoundness ==
    (Returned /\ ~BlankText /\ req.filters # <<>>) =>
        \A i \in 1..Len(ret.result) : ItemSatisfies(req.filters, ret.result[i])

C3_OrderPreserved ==
    Returned =>
        /\ IsSubsequence(ret.result, Formatted)
        /\ PoolDescending => ScoresNonIncreasing

(* C3 witness: two hits of different score returned around a dropped one *)
C3_Witness ==
    /\ Returned /\ req.filters # <<>> /\ PoolDescending
    /\ Len(pool) = 3 /\ Len(ret.result) = 2
    /\ ret.result[1] = Formatted[1] /\ ret.result[2] = Formatted[3]
    /\ Num(ret.result[1].score) > Num(ret.result[2].score)

(* C4: a query whose text is empty or whitespace-only returns the empty list *)
(* and calls neither the embedding model nor the index, with or without a    *)
(* filter.                                                                   *)
C4_BlankEarlyExit ==
    (Done /\ BlankText) =>
        /\ ret.outcome = "returned"
        /\ ret.result = <<>>
        /\ ret.embedCalls = 0
        /\ ret.indexCalls = 0

(* C4 witness: whitespace-only text with a filter, on an initialized index *)
C4_Witness ==
    /\ Done /\ BlankText /\ req.text # <<>> /\ req.filters # <<>> /\ index
    /\ ret.result = <<>> /\ ret.embedCalls = 0

(* C5: with non-blank text, when the embedding model or the index is missing *)
(* or raises, query returns the empty list and raises nothing.               *)
C5_GracefulDegradation ==
    (Done /\ ~BlankText /\ (~index \/ ~env.embedOk \/ ~env.indexOk)) =>
        /\ ret.outcome = "returned"
        /\ ret.result = <<>>

C10_StableShape ==
    Returned =>
        \A i \in 1..Len(ret.result) :
            /\ ret.result[i].role # PyNone
            /\ ret.result[i].years # PyNone
            /\ ret.result[i].skills # PyNone
            /\ ret.result[i].summary # PyNone

---------------------------------------------------------------------------
Evaluated == ev.out \in {"pass", "fail", "raise"}

(* the clause is malformed for the value: an operator key that is not        *)
(* supported, or a $gte / $lte bound the value cannot be ordered with        *)
Malformed ==
    /\ ev.condition.kind = "dict"
    /\ \/ ev.condition.keys \ Supported # {}
       \/ /\ "$gte" \in ev.condition.keys
          /\ ev.value # PyNone
          /\ PyGe(ev.value, ev.condition.gte) = "raise"
       \/ /\ "$lte" \in ev.condition.keys
          /\ ev.value # PyNone
          /\ PyLe(ev.value, ev.condition.lte) = "raise"

(* C7: a malformed clause is not satisfied by any candidate, and raises      *)
(* nothing.                                                                  *)
C7_MalformedIsFalse == (Evaluated /\ Malformed) => ev.out = "fail"

(* C8: a missing (None) field value fails an equality, $eq, $gte or $lte     *)
(* clause.                                                                   *)
C8_MissingFails ==
    (/\ Evaluated
     /\ ev.value = PyNone
     /\ \/ ev.condition.kind = "value"
        \/ ev.condition.keys \cap {"$eq", "$gte", "$lte"} # {}) => ev.out = "fail"

====
